---- MODULE Spec2Model ----
(***************************************************************************)
(* rmrf: the concurrent tree-deletion engine of internal/deleter.          *)
(*                                                                         *)
(* A Deleter (config + shared Stats) receives Delete(path) calls.  Each    *)
(* call validates the path, resolves it, and runs deleteRecursive on the   *)
(* root in a goroutine of its own; deleteRecursive spawns a goroutine per  *)
(* subdirectory when the semaphore grants a permit and recurses inline     *)
(* when it does not.  The filesystem, the WaitGroups, the semaphore, the   *)
(* Stats and the ProgressReporter are the state; every statement of the    *)
(* Go code that touches shared state is a step of its own.                 *)
(***************************************************************************)
EXTENDS Integers, Sequences, FiniteSets, TLC

VARIABLES
    cfg,        \* config.Options of the Deleter: MaxThreads, DryRun, SkipSymlinks
    world,      \* the process environment: cwd, the injected syscall fault, the initial filesystem
    present,    \* filesystem: the absolute paths that exist
    mode,       \* filesystem: permission bits of every path
    stats,      \* d.stats: FilesDeleted, DirsDeleted, Errors (shared by all calls of the Deleter)
    progress,   \* per call: the ProgressReporter's Total and Processed
    sem,        \* per call: number of permits held (length of the buffered channel)
    wgc,        \* WaitGroup counters: the call's wg and every directory's subWg
    gs,         \* live goroutines: id -> stack of deleteRecursive frames
    panicked,   \* a goroutine has panicked with "sync: negative WaitGroup counter"
    proc,       \* the process: "running", "dying" (the panic is being reported), "exited"
    callerPc,   \* the caller of Delete: "idle", "waiting", "returned", "failed"
    calls,      \* number of Delete calls made so far
    budget,     \* number of Delete calls the caller will make
    input,      \* the path argument of the last Delete call
    ret,        \* what the last Delete call returned: (stats or nil, err)
    log         \* the caller's record of the values returned by finished calls

vars == <<cfg, world, present, mode, stats, progress, sem, wgc, gs, panicked, proc,
          callerPc, calls, budget, input, ret, log>>

(***************************************************************************)
(* Bounds of the model.                                                    *)
(***************************************************************************)
MaxThreadsBound == 2
MaxCalls == 2
\* time.Since(p.startTime) at an Update, in seconds: 0..MaxElapsed.
MaxElapsed == 1

(***************************************************************************)
(* Program constants.                                                      *)
(***************************************************************************)
DirMode == 448     \* 0700
FileMode == 384    \* 0600

(***************************************************************************)
(* Path strings.  A path string is kept as the list of its "/"-separated   *)
(* segments plus whether it starts with "/": "/etc/" is                    *)
(* [abs |-> TRUE, segs |-> <<"etc", "">>], "etc" is                        *)
(* [abs |-> FALSE, segs |-> <<"etc">>].  Two different strings have        *)
(* different representations, so == on strings is = here.                  *)
(***************************************************************************)
Str(abs, segs) == [abs |-> abs, segs |-> segs]

RECURSIVE CleanSegs(_, _)
\* filepath.Clean on the segments: drops "" and ".", resolves "..".
CleanSegs(segs, acc) ==
    IF segs = <<>> THEN acc
    ELSE LET s == Head(segs) IN
         IF s = "" \/ s = "." THEN CleanSegs(Tail(segs), acc)
         ELSE IF s = ".."
              THEN CleanSegs(Tail(segs),
                             IF acc = <<>> THEN acc ELSE SubSeq(acc, 1, Len(acc) - 1))
              ELSE CleanSegs(Tail(segs), Append(acc, s))

\* filepath.Abs: Clean(path) when absolute, Join(cwd, path) otherwise.  The
\* result is an absolute clean path, kept as its list of components.
Abs(path, cwd) ==
    IF path.abs THEN CleanSegs(path.segs, <<>>) ELSE CleanSegs(cwd \o path.segs, <<>>)

\* filepath.Join(path, entry.Name())
Join(dir, name) == Append(dir, name)

\* The string of an absolute clean path.
AsStr(p) == Str(TRUE, p)

(***************************************************************************)
(* The filesystem universe.                                                *)
(***************************************************************************)
TreeRoot == <<"tmp", "t">>
LinkTarget == <<"tmp", "o">>

FileNames == {"f", "g", "h", "x", "passwd"}
LinkNames == {"l"}

\* Directory listings are sorted by file name (os.ReadDir).
NameOrder == <<"a", "b", "c", "d", "etc", "f", "g", "h", "l", "o", "passwd", "priv", "t", "tmp", "x">>

Last(p) == p[Len(p)]
Parent(p) == SubSeq(p, 1, Len(p) - 1)

Kind(p) ==
    IF p = <<>> THEN "dir"
    ELSE IF Last(p) \in LinkNames THEN "symlink"
    ELSE IF Last(p) \in FileNames THEN "file"
    ELSE "dir"

\* Paths outside the tree under test that always exist.
BasePaths ==
    { <<>>, <<"etc">>, <<"etc", "passwd">>, <<"priv">>, <<"priv", "d">>,
      <<"tmp">>, LinkTarget, Join(LinkTarget, "x") }

Under(names) == { TreeRoot \o n : n \in names }

\* Shapes of the tree rooted at /tmp/t.
Trees ==
    { Under({<<>>, <<"f">>}),
      Under({<<>>, <<"a">>, <<"a", "x">>, <<"f">>}),
      Under({<<>>, <<"a">>, <<"a", "x">>, <<"b">>}),
      Under({<<>>, <<"a">>, <<"a", "c">>}),
      Under({<<>>, <<"f">>, <<"l">>}),
      Under({<<>>, <<"a">>, <<"b">>, <<"f">>, <<"g">>, <<"h">>}) }

AllPaths == BasePaths \cup UNION Trees

IsPrefix(p, q) == Len(p) <= Len(q) /\ SubSeq(q, 1, Len(p)) = p
Children(p, S) == { q \in S : Len(q) = Len(p) + 1 /\ IsPrefix(p, q) }
Subtree(p, S) == { q \in S : IsPrefix(p, q) }

\* A directory we may not search: every syscall on a path below it fails
\* with EACCES.
Inaccessible(p) == Len(p) >= 2 /\ p[1] = "priv"

\* Path arguments given to Delete.
InputPaths ==
    { Str(TRUE, <<"tmp", "t">>),       \* "/tmp/t"
      Str(FALSE, <<"t">>),             \* "t"
      Str(TRUE, <<"etc">>),            \* "/etc"
      Str(TRUE, <<"etc", "">>),        \* "/etc/"
      Str(FALSE, <<"etc">>),           \* "etc"
      Str(TRUE, <<"usr">>),            \* "/usr"
      Str(TRUE, <<"tmp", "gone">>),    \* "/tmp/gone"
      Str(TRUE, <<"priv", "d">>) }     \* "/priv/d"

Cwds == { <<>>, <<"tmp">> }

\* config.DefaultOptions.DangerousPaths
DangerousPaths ==
    << Str(TRUE, <<>>), Str(TRUE, <<"etc">>), Str(TRUE, <<"usr">>),
       Str(TRUE, <<"bin">>), Str(TRUE, <<"sbin">>) >>

(***************************************************************************)
(* The operating system's answers.  world.fault names one syscall on one   *)
(* path that is made to fail (an immutable file, a directory owned by      *)
(* someone else, ...).                                                     *)
(***************************************************************************)
NoFault == [op |-> "none", node |-> <<>>]

Faults ==
    { NoFault,
      [op |-> "remove", node |-> TreeRoot \o <<"f">>],
      [op |-> "chmod",  node |-> TreeRoot \o <<"f">>],
      [op |-> "chmod",  node |-> TreeRoot \o <<"a">>],
      [op |-> "open",   node |-> TreeRoot \o <<"a">>],
      [op |-> "remove", node |-> TreeRoot \o <<"a">>] }

Faulty(op, p) == world.fault.op = op /\ world.fault.node = p

\* chmod(2) follows a symbolic link.
Resolve(p) == IF Kind(p) = "symlink" THEN LinkTarget ELSE p

\* os.Stat(path): "nil", "ENOENT" or "EACCES".
StatErr(path) ==
    LET p == Abs(path, world.cwd) IN
    IF Inaccessible(p) THEN "EACCES"
    ELSE IF p \notin present THEN "ENOENT"
    ELSE "nil"

\* os.Chmod(p, m) succeeds.
ChmodOk(p) ==
    /\ p \in present
    /\ Resolve(p) \in present
    /\ ~Inaccessible(p)
    /\ ~Faulty("chmod", p)

\* os.ReadDir(p) succeeds.
ReadDirOk(p) ==
    /\ p \in present
    /\ Kind(p) = "dir"
    /\ ~Inaccessible(p)
    /\ ~Faulty("open", p)

\* os.Remove(p) succeeds: a directory must be empty.
RemoveOk(p) ==
    /\ p \in present
    /\ ~Inaccessible(p)
    /\ ~Faulty("remove", p)
    /\ (Kind(p) = "dir" => Children(p, present) = {})

\* The entries os.ReadDir(p) returns: the names in p, sorted.
ReadDirEntries(p) ==
    SelectSeq(NameOrder, LAMBDA n : Join(p, n) \in present)

(***************************************************************************)
(* reporter.ProgressReporter                                               *)
(***************************************************************************)
\* float64 values: a finite ratio num/den (den > 0), an infinity (num is
\* its sign) or NaN.  NotShown stands for a value never printed.
Finite(n, d) == [cls |-> "finite", num |-> n, den |-> d]
Inf(sign) == [cls |-> "inf", num |-> sign, den |-> 0]
NaN == [cls |-> "nan", num |-> 0, den |-> 0]
NotShown == [cls |-> "none", num |-> 0, den |-> 0]

Sign(n) == IF n < 0 THEN 0 - 1 ELSE 1
Magnitude(n) == IF n < 0 THEN 0 - n ELSE n

\* a / b on float64: no trap; x/0 is an infinity for x /= 0 and NaN for
\* x = 0, x/Inf is 0 for a finite x, and NaN propagates.
FDiv(a, b) ==
    IF a.cls = "nan" \/ b.cls = "nan" THEN NaN
    ELSE IF b.cls = "inf"
         THEN IF a.cls = "inf" THEN NaN ELSE Finite(0, 1)
    ELSE IF a.cls = "inf" THEN Inf(a.num * Sign(b.num))
    ELSE IF b.num = 0
         THEN IF a.num = 0 THEN NaN ELSE Inf(Sign(a.num))
    ELSE Finite(a.num * b.den * Sign(b.num), a.den * Magnitude(b.num))

\* NewProgressReporter(total); rate and eta are what the last Printf of
\* Update showed.
NewProgressReporter(total) ==
    [Total |-> total, Processed |-> 0, rate |-> NotShown, eta |-> NotShown]

\* ProgressReporter.Update(count) when time.Since(startTime) is elapsed
\* seconds: Processed += count, rate = Processed / elapsed,
\* remaining = (Total - Processed) / rate, and both are printed.
ProgressReporterUpdate(p, count, elapsed) ==
    LET processed == p.Processed + count
        rate == FDiv(Finite(processed, 1), Finite(elapsed, 1))
        remaining == FDiv(Finite(p.Total - processed, 1), rate)
    IN [p EXCEPT !.Processed = processed, !.rate = rate, !.eta = remaining]

(***************************************************************************)
(* reporter.Stats                                                          *)
(***************************************************************************)
DefaultStats == [FilesDeleted |-> 0, DirsDeleted |-> 0, Errors |-> <<>>]

Err(op, p) == [op |-> op, path |-> p]

\* Stats.AddError: under s.mu, append.
AddError(s, e) == [s EXCEPT !.Errors = Append(@, e)]

(***************************************************************************)
(* Deleter.validatePath                                                    *)
(***************************************************************************)
validatePath(path) ==
    IF \E i \in 1..Len(DangerousPaths) : path = DangerousPaths[i]
    THEN "ErrDangerousPath"
    ELSE IF StatErr(path) = "ENOENT" THEN "ErrNotExist"
    ELSE "nil"

\* Mutant of makeDeletableChmods: the DryRun test is missing.
makeDeletableChmodsAlways(dryRun) == TRUE

\* Deleter.makeDeletable does nothing in a dry run and chmods otherwise.
makeDeletableChmods(dryRun) == ~dryRun

\* processFile returns after the count in a dry run.
processFileDryRun(dryRun) == dryRun

\* Mutant of skipsEntry: a symbolic link is handled like any other entry.
skipsEntryNever(kind, skipSymlinks) == FALSE

\* The test of deleteRecursive that skips an entry.
skipsEntry(kind, skipSymlinks) == kind = "symlink" /\ skipSymlinks

\* entry.IsDir(): the entry's own type, a symbolic link is not a directory.
IsDir(p) == Kind(p) = "dir"

\* Mutant of removesDir: the directory is never removed.
removesDirNever(dryRun) == FALSE

\* The directory is removed after the wait unless the run is dry.
removesDir(dryRun) == ~dryRun

(***************************************************************************)
(* Goroutines, frames, WaitGroups.                                         *)
(***************************************************************************)
Key(c, p) == [call |-> c, path |-> p]
MainWg(c) == Key(c, <<"#wg">>)

Frame(p, wg) == [path |-> p, wg |-> wg, pc |-> "makeDeletable", entries |-> <<>>, tmp |-> 0]

\* The process has not exited.
Alive == proc /= "exited"

Running(g) == g \in DOMAIN gs /\ gs[g].stack /= <<>> /\ Alive
Top(g) == Head(gs[g].stack)
At(g, pc) == Running(g) /\ Top(g).pc = pc
SetTop(g, f) == [gs EXCEPT ![g].stack = <<f>> \o Tail(@)]
Without(fn, k) == [x \in DOMAIN fn \ {k} |-> fn[x]]
With(fn, k, v) == [x \in DOMAIN fn \cup {k} |-> IF x = k THEN v ELSE fn[x]]

EmptyFn == [x \in {} |-> 0]

\* Directories that a goroutine is executing deleteRecursive for.
Active == { g \in DOMAIN gs : gs[g].stack /= <<>> }

(***************************************************************************)
(* Deleter.Delete                                                          *)
(***************************************************************************)
\* What the caller notes of a call: the Deleter's mode and whether it was
\* unused, the argument, the tree met, and (at the return) the values returned.
LogEntry(path, err) ==
    [ dry |-> cfg.DryRun, fresh |-> stats = DefaultStats, input |-> path,
      tree |-> Subtree(Abs(path, world.cwd), present), err |-> err,
      files |-> 0, dirs |-> 0, errors |-> 0 ]

\* Delete(path), lines 28-43: validate, resolve, then start the root
\* goroutine registered on the call's WaitGroup; or return the error.
Delete(path) ==
    /\ Alive
    /\ callerPc /= "waiting"
    /\ calls < budget
    /\ input' = path
    /\ calls' = calls + 1
    /\ LET err == validatePath(path)
           c == calls + 1
           root == Abs(path, world.cwd)
       IN IF err /= "nil"
          THEN /\ ret' = [stats |-> FALSE, err |-> err]
               /\ callerPc' = "failed"
               /\ log' = Append(log, LogEntry(path, err))
               /\ UNCHANGED <<wgc, sem, progress, gs>>
          ELSE /\ wgc' = With(wgc, MainWg(c), 1)
               /\ sem' = With(sem, c, 0)
               /\ progress' = With(progress, c, NewProgressReporter(0))
               /\ gs' = With(gs, Key(c, root),
                             [stack |-> <<Frame(root, MainWg(c))>>, spawned |-> FALSE, panicking |-> FALSE])
               /\ callerPc' = "waiting"
               /\ log' = Append(log, LogEntry(path, "running"))
               /\ UNCHANGED ret
    /\ UNCHANGED <<cfg, world, present, mode, stats, panicked, proc, budget>>

\* Delete, lines 44-47: wg.Wait() returns, progress.Complete(), return d.stats.
DeleteReturn ==
    /\ Alive
    /\ callerPc = "waiting"
    /\ wgc[MainWg(calls)] = 0
    /\ callerPc' = "returned"
    /\ ret' = [stats |-> TRUE, err |-> "nil"]
    /\ log' = [log EXCEPT ![Len(log)] =
                   [@ EXCEPT !.err = "nil", !.files = stats.FilesDeleted,
                             !.dirs = stats.DirsDeleted, !.errors = Len(stats.Errors)]]
    /\ UNCHANGED <<cfg, world, present, mode, stats, progress, sem, wgc, gs, panicked, proc,
                   calls, budget, input>>

(***************************************************************************)
(* Deleter.deleteRecursive, one action per statement.                      *)
(***************************************************************************)
\* Line 13: makeDeletable(path); on error AddError and return.
MakeDeletable(g) ==
    /\ At(g, "makeDeletable")
    /\ LET f == Top(g) IN
       IF ~makeDeletableChmods(cfg.DryRun)
       THEN /\ gs' = SetTop(g, [f EXCEPT !.pc = "ReadDir"])
            /\ UNCHANGED <<mode, stats>>
       ELSE IF ChmodOk(f.path)
       THEN /\ mode' = [mode EXCEPT ![Resolve(f.path)] = DirMode]
            /\ gs' = SetTop(g, [f EXCEPT !.pc = "ReadDir"])
            /\ UNCHANGED stats
       ELSE /\ stats' = AddError(stats, Err("chmod", f.path))
            /\ gs' = SetTop(g, [f EXCEPT !.pc = "Done"])
            /\ UNCHANGED mode
    /\ UNCHANGED <<cfg, world, present, progress, sem, wgc, panicked, proc,
                   callerPc, calls, budget, input, ret, log>>

\* Mutant of ReadDir: no return after the error, the directory's removal is
\* attempted all the same.
ReadDirFallsThrough(g) ==
    /\ At(g, "ReadDir")
    /\ LET f == Top(g) IN
       IF ReadDirOk(f.path)
       THEN /\ gs' = SetTop(g, [f EXCEPT !.pc = "TotalLoad", !.entries = ReadDirEntries(f.path)])
            /\ UNCHANGED stats
       ELSE /\ stats' = AddError(stats, Err("open", f.path))
            /\ gs' = SetTop(g, [f EXCEPT !.pc = "RemoveDir"])
    /\ UNCHANGED <<cfg, world, present, mode, progress, sem, wgc, panicked, proc,
                   callerPc, calls, budget, input, ret, log>>

\* Lines 18-22: os.ReadDir(path); on error AddError and return.
ReadDir(g) ==
    /\ At(g, "ReadDir")
    /\ LET f == Top(g) IN
       IF ReadDirOk(f.path)
       THEN /\ gs' = SetTop(g, [f EXCEPT !.pc = "TotalLoad", !.entries = ReadDirEntries(f.path)])
            /\ UNCHANGED stats
       ELSE /\ stats' = AddError(stats, Err("open", f.path))
            /\ gs' = SetTop(g, [f EXCEPT !.pc = "Done"])
    /\ UNCHANGED <<cfg, world, present, mode, progress, sem, wgc, panicked, proc,
                   callerPc, calls, budget, input, ret, log>>

\* Line 24, progress.Total += len(entries): the read of Total (no lock held).
TotalLoad(g) ==
    /\ At(g, "TotalLoad")
    /\ gs' = SetTop(g, [Top(g) EXCEPT !.pc = "TotalStore", !.tmp = progress[g.call].Total])
    /\ UNCHANGED <<cfg, world, present, mode, stats, progress, sem, wgc, panicked, proc,
                   callerPc, calls, budget, input, ret, log>>

\* Line 24, the write of Total; line 25 declares subWg.
TotalStore(g) ==
    /\ At(g, "TotalStore")
    /\ LET f == Top(g) IN
       /\ progress' = [progress EXCEPT ![g.call].Total = f.tmp + Len(f.entries)]
       /\ wgc' = With(wgc, Key(g.call, f.path), 0)
       /\ gs' = SetTop(g, [f EXCEPT !.pc = "Loop", !.tmp = 0])
    /\ UNCHANGED <<cfg, world, present, mode, stats, sem, panicked, proc,
                   callerPc, calls, budget, input, ret, log>>

\* Lines 30-33: a symbolic link is skipped with an error entry.
SkipSymlink(g) ==
    /\ At(g, "Loop")
    /\ Top(g).entries /= <<>>
    /\ LET f == Top(g)
           fullPath == Join(f.path, Head(f.entries))
       IN /\ skipsEntry(Kind(fullPath), cfg.SkipSymlinks)
          /\ stats' = AddError(stats, Err("skipped symlink", fullPath))
          /\ gs' = SetTop(g, [f EXCEPT !.entries = Tail(@)])
    /\ UNCHANGED <<cfg, world, present, mode, progress, sem, wgc, panicked, proc,
                   callerPc, calls, budget, input, ret, log>>

\* Lines 36-42: the permit is granted: subWg.Add(1) and a new goroutine.
Spawn(g) ==
    /\ At(g, "Loop")
    /\ Top(g).entries /= <<>>
    /\ LET f == Top(g)
           fullPath == Join(f.path, Head(f.entries))
           subWg == Key(g.call, f.path)
       IN /\ ~skipsEntry(Kind(fullPath), cfg.SkipSymlinks)
          /\ IsDir(fullPath)
          /\ sem[g.call] < cfg.MaxThreads
          /\ sem' = [sem EXCEPT ![g.call] = @ + 1]
          /\ wgc' = [wgc EXCEPT ![subWg] = @ + 1]
          /\ gs' = With(SetTop(g, [f EXCEPT !.entries = Tail(@)]),
                        Key(g.call, fullPath),
                        [stack |-> <<Frame(fullPath, subWg)>>, spawned |-> TRUE, panicking |-> FALSE])
    /\ UNCHANGED <<cfg, world, present, mode, stats, progress, panicked, proc,
                   callerPc, calls, budget, input, ret, log>>

\* Lines 43-44: the permit is denied: deleteRecursive is called on this
\* goroutine with &subWg, and no subWg.Add.
Inline(g) ==
    /\ At(g, "Loop")
    /\ Top(g).entries /= <<>>
    /\ LET f == Top(g)
           fullPath == Join(f.path, Head(f.entries))
           subWg == Key(g.call, f.path)
       IN /\ ~skipsEntry(Kind(fullPath), cfg.SkipSymlinks)
          /\ IsDir(fullPath)
          /\ sem[g.call] >= cfg.MaxThreads
          /\ gs' = [gs EXCEPT ![g].stack =
                       <<Frame(fullPath, subWg), [f EXCEPT !.entries = Tail(@)]>> \o Tail(@)]
    /\ UNCHANGED <<cfg, world, present, mode, stats, progress, sem, wgc, panicked, proc,
                   callerPc, calls, budget, input, ret, log>>

\* Line 47, processFile lines 64-72: the dry-run test and os.Chmod(path, 0600).
ProcessFile(g) ==
    /\ At(g, "Loop")
    /\ Top(g).entries /= <<>>
    /\ LET f == Top(g)
           fullPath == Join(f.path, Head(f.entries))
       IN /\ ~skipsEntry(Kind(fullPath), cfg.SkipSymlinks)
          /\ ~IsDir(fullPath)
          /\ IF processFileDryRun(cfg.DryRun)
             THEN /\ gs' = SetTop(g, [f EXCEPT !.pc = "FilesLoad"])
                  /\ UNCHANGED <<mode, stats>>
             ELSE IF ChmodOk(fullPath)
             THEN /\ mode' = [mode EXCEPT ![Resolve(fullPath)] = FileMode]
                  /\ gs' = SetTop(g, [f EXCEPT !.pc = "FileRemove"])
                  /\ UNCHANGED stats
             ELSE /\ stats' = AddError(stats, Err("chmod", fullPath))
                  /\ gs' = SetTop(g, [f EXCEPT !.pc = "Update"])
                  /\ UNCHANGED mode
    /\ UNCHANGED <<cfg, world, present, progress, sem, wgc, panicked, proc,
                   callerPc, calls, budget, input, ret, log>>

\* Mutant of FileRemove: the count is not in the else branch, a file whose
\* removal failed is counted as well.
FileRemoveCountsAlways(g) ==
    /\ At(g, "FileRemove")
    /\ LET f == Top(g)
           fullPath == Join(f.path, Head(f.entries))
       IN IF RemoveOk(fullPath)
          THEN /\ present' = present \ {fullPath}
               /\ gs' = SetTop(g, [f EXCEPT !.pc = "FilesLoad"])
               /\ UNCHANGED stats
          ELSE /\ stats' = AddError(stats, Err("remove", fullPath))
               /\ gs' = SetTop(g, [f EXCEPT !.pc = "FilesLoad"])
               /\ UNCHANGED present
    /\ UNCHANGED <<cfg, world, mode, progress, sem, wgc, panicked, proc,
                   callerPc, calls, budget, input, ret, log>>

\* processFile lines 74-76: os.Remove(path); on error AddError.
FileRemove(g) ==
    /\ At(g, "FileRemove")
    /\ LET f == Top(g)
           fullPath == Join(f.path, Head(f.entries))
       IN IF RemoveOk(fullPath)
          THEN /\ present' = present \ {fullPath}
               /\ gs' = SetTop(g, [f EXCEPT !.pc = "FilesLoad"])
               /\ UNCHANGED stats
          ELSE /\ stats' = AddError(stats, Err("remove", fullPath))
               /\ gs' = SetTop(g, [f EXCEPT !.pc = "Update"])
               /\ UNCHANGED present
    /\ UNCHANGED <<cfg, world, mode, progress, sem, wgc, panicked, proc,
                   callerPc, calls, budget, input, ret, log>>

\* processFile lines 65 and 77, d.stats.FilesDeleted++: the read (no lock held).
FilesLoad(g) ==
    /\ At(g, "FilesLoad")
    /\ gs' = SetTop(g, [Top(g) EXCEPT !.pc = "FilesStore", !.tmp = stats.FilesDeleted])
    /\ UNCHANGED <<cfg, world, present, mode, stats, progress, sem, wgc, panicked, proc,
                   callerPc, calls, budget, input, ret, log>>

\* d.stats.FilesDeleted++: the write.
FilesStore(g) ==
    /\ At(g, "FilesStore")
    /\ stats' = [stats EXCEPT !.FilesDeleted = Top(g).tmp + 1]
    /\ gs' = SetTop(g, [Top(g) EXCEPT !.pc = "Update", !.tmp = 0])
    /\ UNCHANGED <<cfg, world, present, mode, progress, sem, wgc, panicked, proc,
                   callerPc, calls, budget, input, ret, log>>

\* Line 48, progress.Update(1): the reporter's Update, under p.mu, with the
\* time elapsed since startTime as the clock gives it.
Update(g) ==
    /\ At(g, "Update")
    /\ \E elapsed \in 0..MaxElapsed :
          progress' = [progress EXCEPT ![g.call] = ProgressReporterUpdate(@, 1, elapsed)]
    /\ gs' = SetTop(g, [Top(g) EXCEPT !.pc = "Loop", !.entries = Tail(@)])
    /\ UNCHANGED <<cfg, world, present, mode, stats, sem, wgc, panicked, proc,
                   callerPc, calls, budget, input, ret, log>>

\* Line 52, subWg.Wait(): returns when the counter is zero; line 54 tests DryRun.
Wait(g) ==
    /\ At(g, "Loop")
    /\ Top(g).entries = <<>>
    /\ wgc[Key(g.call, Top(g).path)] = 0
    /\ gs' = SetTop(g, [Top(g) EXCEPT !.pc = IF removesDir(cfg.DryRun) THEN "RemoveDir" ELSE "Done"])
    /\ UNCHANGED <<cfg, world, present, mode, stats, progress, sem, wgc, panicked, proc,
                   callerPc, calls, budget, input, ret, log>>

\* Line 55: os.Remove(path) and the test of its error.  Other goroutines
\* run between a failure and its recording, so the reason of the failure
\* (an entry still there) can be gone when the error is appended.
RemoveDir(g) ==
    /\ At(g, "RemoveDir")
    /\ LET f == Top(g) IN
       IF RemoveOk(f.path)
       THEN /\ present' = present \ {f.path}
            /\ gs' = SetTop(g, [f EXCEPT !.pc = "DirsLoad"])
       ELSE /\ gs' = SetTop(g, [f EXCEPT !.pc = "RemoveDirError"])
            /\ UNCHANGED present
    /\ UNCHANGED <<cfg, world, mode, stats, progress, sem, wgc, panicked, proc,
                   callerPc, calls, budget, input, ret, log>>

\* Line 56: d.stats.AddError(err) for the failed os.Remove(path).
RemoveDirError(g) ==
    /\ At(g, "RemoveDirError")
    /\ stats' = AddError(stats, Err("remove", Top(g).path))
    /\ gs' = SetTop(g, [Top(g) EXCEPT !.pc = "Done"])
    /\ UNCHANGED <<cfg, world, present, mode, progress, sem, wgc, panicked, proc,
                   callerPc, calls, budget, input, ret, log>>

\* Line 58, d.stats.DirsDeleted++: the read (no lock held).
DirsLoad(g) ==
    /\ At(g, "DirsLoad")
    /\ gs' = SetTop(g, [Top(g) EXCEPT !.pc = "DirsStore", !.tmp = stats.DirsDeleted])
    /\ UNCHANGED <<cfg, world, present, mode, stats, progress, sem, wgc, panicked, proc,
                   callerPc, calls, budget, input, ret, log>>

\* d.stats.DirsDeleted++: the write.
DirsStore(g) ==
    /\ At(g, "DirsStore")
    /\ stats' = [stats EXCEPT !.DirsDeleted = Top(g).tmp + 1]
    /\ gs' = SetTop(g, [Top(g) EXCEPT !.pc = "Done", !.tmp = 0])
    /\ UNCHANGED <<cfg, world, present, mode, progress, sem, wgc, panicked, proc,
                   callerPc, calls, budget, input, ret, log>>

\* The frames a panic unwinds: nothing of them runs but the deferred
\* wg.Done().
Unwinding(stack) == [i \in DOMAIN stack |-> [stack[i] EXCEPT !.pc = "Done"]]

\* Line 11, the deferred wg.Done(): the counter goes down by one and the
\* frame returns.  A counter below zero panics (sync: negative WaitGroup
\* counter): the goroutine then runs the deferred calls of its enclosing
\* frames and of its closure, and the process exits once they have run;
\* the other goroutines go on until then.  The root goroutine ends with
\* its frame.
Done(g) ==
    /\ At(g, "Done")
    /\ LET f == Top(g)
           rest == Tail(gs[g].stack)
           negative == wgc[f.wg] - 1 < 0
           panicking == gs[g].panicking \/ negative
       IN /\ wgc' = [wgc EXCEPT ![f.wg] = @ - 1]
          /\ panicked' = (panicked \/ negative)
          /\ gs' = IF rest = <<>> /\ ~gs[g].spawned
                   THEN Without(gs, g)
                   ELSE [gs EXCEPT ![g] = [stack |-> IF panicking THEN Unwinding(rest) ELSE rest,
                                           spawned |-> gs[g].spawned,
                                           panicking |-> panicking]]
          /\ proc' = IF rest = <<>> /\ ~gs[g].spawned /\ panicking /\ proc = "running"
                     THEN "dying" ELSE proc
    /\ UNCHANGED <<cfg, world, present, mode, stats, progress, sem,
                   callerPc, calls, budget, input, ret, log>>

\* Mutant of Release: the goroutine ends without receiving from sem.
ReleaseKeepsPermit(g) ==
    /\ Alive
    /\ g \in DOMAIN gs
    /\ gs[g].stack = <<>>
    /\ gs[g].spawned
    /\ gs' = Without(gs, g)
    /\ proc' = IF gs[g].panicking /\ proc = "running" THEN "dying" ELSE proc
    /\ UNCHANGED <<cfg, world, present, mode, stats, progress, sem, wgc, panicked,
                   callerPc, calls, budget, input, ret, log>>

\* Line 40, the spawned goroutine's deferred <-sem: the permit goes back
\* (also when the goroutine is panicking, as its last deferred call).
Release(g) ==
    /\ Alive
    /\ g \in DOMAIN gs
    /\ gs[g].stack = <<>>
    /\ gs[g].spawned
    /\ sem' = [sem EXCEPT ![g.call] = @ - 1]
    /\ gs' = Without(gs, g)
    /\ proc' = IF gs[g].panicking /\ proc = "running" THEN "dying" ELSE proc
    /\ UNCHANGED <<cfg, world, present, mode, stats, progress, wgc, panicked,
                   callerPc, calls, budget, input, ret, log>>

\* The Go runtime, after the deferred calls of a panicking goroutine have
\* run: the panic is printed and the process exits; no goroutine runs on.
Exit ==
    /\ proc = "dying"
    /\ proc' = "exited"
    /\ UNCHANGED <<cfg, world, present, mode, stats, progress, sem, wgc, gs, panicked,
                   callerPc, calls, budget, input, ret, log>>

(***************************************************************************)
(* Specification: one Deleter, one Delete call.                            *)
(***************************************************************************)
InitialMode(p) == IF Kind(p) = "dir" THEN 493 ELSE 420

Configs == [MaxThreads : 1..MaxThreadsBound, DryRun : BOOLEAN, SkipSymlinks : BOOLEAN]

InitWorld(trees, faults) ==
    /\ cfg \in Configs
    /\ \E t \in trees, fl \in faults, cwd \in Cwds :
          /\ present = BasePaths \cup t
          /\ world = [cwd |-> cwd, fault |-> fl, present |-> BasePaths \cup t]
    /\ mode = [p \in AllPaths |-> InitialMode(p)]
    /\ stats = DefaultStats
    /\ progress = EmptyFn
    /\ sem = EmptyFn
    /\ wgc = EmptyFn
    /\ gs = EmptyFn
    /\ panicked = FALSE
    /\ proc = "running"
    /\ callerPc = "idle"
    /\ calls = 0
    /\ input = Str(FALSE, <<>>)
    /\ ret = [stats |-> FALSE, err |-> "nil"]
    /\ log = <<>>

Init ==
    /\ InitWorld(Trees, Faults)
    /\ budget = 1

Next ==
    \/ \E path \in InputPaths : Delete(path)
    \/ DeleteReturn
    \/ \E g \in DOMAIN gs : MakeDeletable(g)
    \/ \E g \in DOMAIN gs : ReadDir(g)
    \/ \E g \in DOMAIN gs : TotalLoad(g)
    \/ \E g \in DOMAIN gs : TotalStore(g)
    \/ \E g \in DOMAIN gs : SkipSymlink(g)
    \/ \E g \in DOMAIN gs : Spawn(g)
    \/ \E g \in DOMAIN gs : Inline(g)
    \/ \E g \in DOMAIN gs : ProcessFile(g)
    \/ \E g \in DOMAIN gs : FileRemove(g)
    \/ \E g \in DOMAIN gs : FilesLoad(g)
    \/ \E g \in DOMAIN gs : FilesStore(g)
    \/ \E g \in DOMAIN gs : Update(g)
    \/ \E g \in DOMAIN gs : Wait(g)
    \/ \E g \in DOMAIN gs : RemoveDir(g)
    \/ \E g \in DOMAIN gs : RemoveDirError(g)
    \/ \E g \in DOMAIN gs : DirsLoad(g)
    \/ \E g \in DOMAIN gs : DirsStore(g)
    \/ \E g \in DOMAIN gs : Done(g)
    \/ \E g \in DOMAIN gs : Release(g)
    \/ Exit

Spec == Init /\ [][Next]_vars

(***************************************************************************)
(* Specification: a caller that makes several calls, on the same Deleter   *)
(* or on a new one built once the previous call's goroutines are gone.     *)
(***************************************************************************)
\* deleter.New(opts...): a Deleter with its own config and DefaultStats().
New(dryRun) ==
    /\ Alive
    /\ callerPc \in {"returned", "failed"}
    /\ DOMAIN gs = {}
    /\ calls < budget
    /\ cfg' = [cfg EXCEPT !.DryRun = dryRun]
    /\ stats' = DefaultStats
    /\ callerPc' = "idle"
    /\ UNCHANGED <<world, present, mode, progress, sem, wgc, gs, panicked, proc,
                   calls, budget, input, ret, log>>

SeqTrees ==
    { Under({<<>>, <<"f">>}),
      Under({<<>>, <<"a">>, <<"a", "c">>}),
      Under({<<>>, <<"f">>, <<"l">>}) }

InitSeq ==
    /\ InitWorld(SeqTrees, {NoFault})
    /\ budget = MaxCalls

NextSeq ==
    \/ Next
    \/ \E d \in BOOLEAN : New(d)

SpecSeq == InitSeq /\ [][NextSeq]_vars

(***************************************************************************)
(* The stand-alone program, src/main.go: asyncRmRF and its deleteRecursive. *)
(* It has no Deleter: cfg.MaxThreads stands for runtime.NumCPU(), and the  *)
(* Deleter's stats, progress and mode are not touched.  Every              *)
(* deleteRecursive runs on a goroutine of its own (there is no inline      *)
(* call), so each stack holds one frame.                                   *)
(***************************************************************************)
\* The frame of deleteRecursive(p, wg, semaphore) at its first statement.
mainFrame(p, wg) == [Frame(p, wg) EXCEPT !.pc = "ReadDir"]

\* asyncRmRF(path), lines 72-77: the WaitGroup, the semaphore of capacity
\* maxThreads, wg.Add(1) and the root goroutine (which holds no slot).
asyncRmRF(path) ==
    /\ callerPc = "idle"
    /\ calls < budget
    /\ input' = path
    /\ calls' = calls + 1
    /\ LET c == calls + 1
           root == Abs(path, world.cwd)
       IN /\ wgc' = With(wgc, MainWg(c), 1)
          /\ sem' = With(sem, c, 0)
          /\ gs' = With(gs, Key(c, root),
                        [stack |-> <<mainFrame(root, MainWg(c))>>, spawned |-> FALSE, panicking |-> FALSE])
    /\ callerPc' = "waiting"
    /\ UNCHANGED <<cfg, world, present, mode, stats, progress, panicked, proc, budget, ret, log>>

\* asyncRmRF, lines 79-81: wg.Wait() returns, the message is printed.
asyncRmRFReturn ==
    /\ callerPc = "waiting"
    /\ wgc[MainWg(calls)] = 0
    /\ callerPc' = "returned"
    /\ UNCHANGED <<cfg, world, present, mode, stats, progress, sem, wgc, gs, panicked, proc,
                   calls, budget, input, ret, log>>

\* Lines 24-30: os.ReadDir(path); on error print and return; else subWg.
mainReadDir(g) ==
    /\ At(g, "ReadDir")
    /\ LET f == Top(g) IN
       IF ReadDirOk(f.path)
       THEN /\ gs' = SetTop(g, [f EXCEPT !.pc = "Loop", !.entries = ReadDirEntries(f.path)])
            /\ wgc' = With(wgc, Key(g.call, f.path), 0)
       ELSE /\ gs' = SetTop(g, [f EXCEPT !.pc = "Done"])
            /\ UNCHANGED wgc
    /\ UNCHANGED <<cfg, world, present, mode, stats, progress, sem, panicked, proc,
                   callerPc, calls, budget, input, ret, log>>

\* Lines 35-42, a directory entry: semaphore <- struct{}{} blocks until a
\* slot is free, then subWg.Add(1) and the goroutine for the entry.
mainSpawn(g) ==
    /\ At(g, "Loop")
    /\ Top(g).entries /= <<>>
    /\ LET f == Top(g)
           fullPath == Join(f.path, Head(f.entries))
           subWg == Key(g.call, f.path)
       IN /\ IsDir(fullPath)
          /\ sem[g.call] < cfg.MaxThreads
          /\ sem' = [sem EXCEPT ![g.call] = @ + 1]
          /\ wgc' = [wgc EXCEPT ![subWg] = @ + 1]
          /\ gs' = With(SetTop(g, [f EXCEPT !.entries = Tail(@)]),
                        Key(g.call, fullPath),
                        [stack |-> <<mainFrame(fullPath, subWg)>>, spawned |-> TRUE, panicking |-> FALSE])
    /\ UNCHANGED <<cfg, world, present, mode, stats, progress, panicked, proc,
                   callerPc, calls, budget, input, ret, log>>

\* Lines 43-49, any other entry: os.Remove(fullPath); an error is printed.
mainRemoveFile(g) ==
    /\ At(g, "Loop")
    /\ Top(g).entries /= <<>>
    /\ LET f == Top(g)
           fullPath == Join(f.path, Head(f.entries))
       IN /\ ~IsDir(fullPath)
          /\ present' = IF RemoveOk(fullPath) THEN present \ {fullPath} ELSE present
          /\ gs' = SetTop(g, [f EXCEPT !.entries = Tail(@)])
    /\ UNCHANGED <<cfg, world, mode, stats, progress, sem, wgc, panicked, proc,
                   callerPc, calls, budget, input, ret, log>>

\* Line 53, subWg.Wait(): returns when the counter is zero.
mainWait(g) ==
    /\ At(g, "Loop")
    /\ Top(g).entries = <<>>
    /\ wgc[Key(g.call, Top(g).path)] = 0
    /\ gs' = SetTop(g, [Top(g) EXCEPT !.pc = "RemoveDir"])
    /\ UNCHANGED <<cfg, world, present, mode, stats, progress, sem, wgc, panicked, proc,
                   callerPc, calls, budget, input, ret, log>>

\* Lines 56-59: os.Remove(path); an error is printed.
mainRemoveDir(g) ==
    /\ At(g, "RemoveDir")
    /\ present' = IF RemoveOk(Top(g).path) THEN present \ {Top(g).path} ELSE present
    /\ gs' = SetTop(g, [Top(g) EXCEPT !.pc = "Done"])
    /\ UNCHANGED <<cfg, world, mode, stats, progress, sem, wgc, panicked, proc,
                   callerPc, calls, budget, input, ret, log>>

\* Line 21, the deferred wg.Done(); the root goroutine ends with it.
mainDone(g) ==
    /\ At(g, "Done")
    /\ wgc' = [wgc EXCEPT ![Top(g).wg] = @ - 1]
    /\ gs' = IF gs[g].spawned THEN [gs EXCEPT ![g].stack = <<>>] ELSE Without(gs, g)
    /\ UNCHANGED <<cfg, world, present, mode, stats, progress, sem, panicked, proc,
                   callerPc, calls, budget, input, ret, log>>

\* Line 40, the deferred <-semaphore of a spawned goroutine.
mainRelease(g) ==
    /\ g \in DOMAIN gs
    /\ gs[g].stack = <<>>
    /\ gs[g].spawned
    /\ sem' = [sem EXCEPT ![g.call] = @ - 1]
    /\ gs' = Without(gs, g)
    /\ UNCHANGED <<cfg, world, present, mode, stats, progress, wgc, panicked, proc,
                   callerPc, calls, budget, input, ret, log>>

\* The trees given to the stand-alone program: those above and a chain of
\* three nested directories.
MainTrees == Trees \cup { Under({<<>>, <<"a">>, <<"a", "c">>, <<"a", "c", "d">>}) }

InitMain ==
    /\ InitWorld(MainTrees, Faults)
    /\ ~cfg.DryRun /\ ~cfg.SkipSymlinks
    /\ budget = 1

NextMain ==
    \/ \E path \in InputPaths : asyncRmRF(path)
    \/ asyncRmRFReturn
    \/ \E g \in DOMAIN gs : mainReadDir(g)
    \/ \E g \in DOMAIN gs : mainSpawn(g)
    \/ \E g \in DOMAIN gs : mainRemoveFile(g)
    \/ \E g \in DOMAIN gs : mainWait(g)
    \/ \E g \in DOMAIN gs : mainRemoveDir(g)
    \/ \E g \in DOMAIN gs : mainDone(g)
    \/ \E g \in DOMAIN gs : mainRelease(g)

\* The Go scheduler runs a goroutine that can take a step: whenever some
\* step of the program is possible, one is eventually taken.
SpecMain == InitMain /\ [][NextMain]_vars /\ WF_vars(NextMain)

(***************************************************************************)
(* Vocabulary of the claims.                                               *)
(***************************************************************************)
\* Every live deleteRecursive frame, as <<goroutine, depth>>.
Frames == UNION { { <<g, i>> : i \in 1..Len(gs[g].stack) } : g \in DOMAIN gs }
FrameOf(fr) == gs[fr[1]].stack[fr[2]]

\* The root directory of the last call.
RootOf(path) == Abs(path, world.cwd)

FsUnchanged == present = world.present /\ mode = [p \in AllPaths |-> InitialMode(p)]

\* The last call has returned its Stats.
Returned == callerPc = "returned" /\ ret.stats

\* Nothing of the call is still running.
Quiescent == DOMAIN gs = {}

\* C1: post-order removal.  A directory's removal is attempted only when no
\* deleteRecursive frame of a path strictly below it is still live.
C1_PostOrder ==
    ~panicked =>
        \A fr \in Frames :
            FrameOf(fr).pc = "RemoveDir" =>
                \A other \in Frames :
                    ~ ( /\ FrameOf(other).path /= FrameOf(fr).path
                        /\ IsPrefix(FrameOf(fr).path, FrameOf(other).path) )

\* C2: concurrency bound.  At most MaxThreads goroutines are executing
\* deleteRecursive at any moment, the root goroutine of Delete included.
C2_ConcurrencyBound ==
    ~panicked => Cardinality(Active) <= cfg.MaxThreads

\* C3: completion.  A call that passed validation never aborts and, until
\* it returns, some step of it can always be taken (no deadlock, no stall).
C3_Completion ==
    callerPc = "waiting" => (~panicked /\ ENABLED Next)

\* C4: no lost or duplicated count.  When Delete has returned and every
\* task has finished, FilesDeleted is the number of files removed (in a dry
\* run: visited) and DirsDeleted the number of directories removed.
C4_ExactCounts ==
    (Returned /\ Quiescent /\ ~panicked) =>
        /\ ~cfg.DryRun =>
              /\ stats.FilesDeleted = Cardinality({ p \in world.present \ present : Kind(p) /= "dir" })
              /\ stats.DirsDeleted = Cardinality({ p \in world.present \ present : Kind(p) = "dir" })
        /\ cfg.DryRun => stats.FilesDeleted = progress[calls].Processed

\* C5: a dry run mutates nothing.  With DryRun set, in every state the
\* filesystem (the paths that exist and their permission bits) is the
\* initial one.
C5_DryRunMutatesNothing ==
    cfg.DryRun => FsUnchanged

\* C5 witness: a dry run over a tree with a subdirectory and files has returned.
C5_Witness ==
    /\ Returned /\ cfg.DryRun
    /\ stats.FilesDeleted >= 2
    /\ TreeRoot \o <<"a">> \in present

\* C7: an empty error list means the tree is gone.  When a non-dry Delete
\* has returned and Stats.Errors is empty, neither the root nor any path
\* below it exists.
C7_EmptyErrorsTreeGone ==
    (Returned /\ ~cfg.DryRun /\ stats.Errors = <<>>) =>
        Subtree(RootOf(input), present) = {}

\* The path string is an entry of the dangerous-path list.
DangerousAsGiven(path) == \E i \in 1..Len(DangerousPaths) : path = DangerousPaths[i]
\* The absolute form of the path is an entry of the dangerous-path list.
DangerousResolved(path) == DangerousAsGiven(AsStr(RootOf(path)))

\* C8: the dangerous-path gate.  When the path given to Delete is a
\* dangerous path as given or once resolved, the call has failed with
\* ErrDangerousPath, without Stats, a task or a change of the filesystem.
C8_DangerousGate ==
    (calls >= 1 /\ (DangerousAsGiven(input) \/ DangerousResolved(input))) =>
        /\ callerPc = "failed"
        /\ ret = [stats |-> FALSE, err |-> "ErrDangerousPath"]
        /\ Quiescent
        /\ FsUnchanged

\* os.Stat of the path failed when Delete was called (ENOENT or EACCES).
StatFailedAtCall(path) ==
    Inaccessible(RootOf(path)) \/ RootOf(path) \notin world.present

\* C9: the NotExist gate.  When the (not dangerous) root could not be
\* stat'd at the call, for whatever reason, the call has failed with
\* ErrNotExist, without Stats, a task or a change of the filesystem.
C9_NotExistGate ==
    (calls >= 1 /\ ~DangerousAsGiven(input) /\ StatFailedAtCall(input)) =>
        /\ callerPc = "failed"
        /\ ret = [stats |-> FALSE, err |-> "ErrNotExist"]
        /\ Quiescent
        /\ FsUnchanged

\* C6: dry-run counts match a real run.  For two calls on unused Deleters
\* that met the same tree, one dry and one not, where no step of the real
\* run failed, the returned FilesDeleted and DirsDeleted are equal.
C6_DryRunCountsMatch ==
    \A i, j \in 1..Len(log) :
        ( /\ log[i].err = "nil" /\ log[j].err = "nil"
          /\ log[i].fresh /\ log[j].fresh
          /\ log[i].dry /\ ~log[j].dry
          /\ log[i].tree = log[j].tree /\ TreeRoot \in log[i].tree
          /\ log[j].errors = 0 /\ log[i].errors = 0 )
        => (log[i].files = log[j].files /\ log[i].dirs = log[j].dirs)

\* The symbolic links of the initial filesystem, the error entries of one
\* of them, and a goroutine whose loop is at a link entry.
Links == { p \in world.present : Kind(p) = "symlink" }
SkipErrors(l) == { i \in 1..Len(stats.Errors) : stats.Errors[i] = Err("skipped symlink", l) }
AtSymlinkEntry(g) ==
    /\ At(g, "Loop")
    /\ Top(g).entries /= <<>>
    /\ Kind(Join(Top(g).path, Head(Top(g).entries))) = "symlink"
\* With SkipSymlinks set, links and their target stay as they were and a
\* link has at most one error entry, one once the call has returned.
C10_LinksIntact ==
    cfg.SkipSymlinks =>
        \A l \in Links :
            /\ l \in present
            /\ Subtree(LinkTarget, present) = Subtree(LinkTarget, world.present)
            /\ \A q \in Subtree(LinkTarget, AllPaths) : mode[q] = InitialMode(q)
            /\ Cardinality(SkipErrors(l)) <= 1
            /\ (Returned /\ RootOf(input) = Parent(l)) => Cardinality(SkipErrors(l)) = 1
\* The step of a goroutine whose loop is at a link entry.
C10_SkipStep ==
    \A g \in DOMAIN gs :
        (cfg.SkipSymlinks /\ AtSymlinkEntry(g) /\ gs'[g] /= gs[g]) =>
            LET l == Join(Top(g).path, Head(Top(g).entries)) IN
            /\ present' = present /\ mode' = mode
            /\ stats' = [stats EXCEPT !.Errors = Append(@, Err("skipped symlink", l))]
            /\ DOMAIN gs' = DOMAIN gs
            /\ gs'[g].stack = <<[Top(g) EXCEPT !.entries = Tail(@)]>> \o Tail(gs[g].stack)

\* C10: symbolic links are skipped.  With SkipSymlinks set, every link and
\* its target stay as they were, a link gets at most one error entry and
\* exactly one once the call over its directory has returned; and the step
\* that meets a link entry changes nothing in the filesystem, adds that one
\* error entry, changes no count and starts no frame for the link.
C10_SymlinkSkipping == [] C10_LinksIntact /\ [][C10_SkipStep]_vars

\* C10 witness: a non-dry call over a directory holding a link and a file
\* has returned; the file is gone and the link has its one entry.
C10_Witness ==
    /\ Returned /\ cfg.SkipSymlinks /\ ~cfg.DryRun
    /\ TreeRoot \o <<"l">> \in Links
    /\ TreeRoot \o <<"f">> \notin present
    /\ Cardinality(SkipErrors(TreeRoot \o <<"l">>)) = 1

\* The locked-file scenario: the root holds three files and two empty
\* subdirectories, the removal of the file f fails, DryRun is off and
\* MaxThreads is 2; the call has returned.
LockedFileScenario ==
    /\ Returned
    /\ calls = 1
    /\ RootOf(input) = TreeRoot
    /\ Subtree(TreeRoot, world.present) = Under({<<>>, <<"a">>, <<"b">>, <<"f">>, <<"g">>, <<"h">>})
    /\ world.fault = [op |-> "remove", node |-> TreeRoot \o <<"f">>]
    /\ ~cfg.DryRun
    /\ cfg.MaxThreads = 2

\* C11 as stated: in the locked-file scenario Delete returns FilesDeleted=2,
\* DirsDeleted=0 and exactly one error, the file's RemoveFailure, and the
\* root still exists.
C11_LockedFileAsStated ==
    LockedFileScenario =>
        /\ stats.FilesDeleted = 2
        /\ stats.DirsDeleted = 0
        /\ stats.Errors = <<Err("remove", TreeRoot \o <<"f">>)>>
        /\ TreeRoot \in present

\* C11 amended: in the locked-file scenario Delete returns FilesDeleted=2,
\* both empty subdirectories are removed and counted (DirsDeleted is 2, or 1
\* when their two unlocked increments collide), the error list holds the
\* file's RemoveFailure followed by the root's, and the root still exists.
C11_LockedFile ==
    LockedFileScenario =>
        /\ stats.FilesDeleted = 2
        /\ stats.DirsDeleted \in {1, 2}
        /\ TreeRoot \o <<"a">> \notin present /\ TreeRoot \o <<"b">> \notin present
        /\ stats.Errors = <<Err("remove", TreeRoot \o <<"f">>), Err("remove", TreeRoot)>>
        /\ present \cap Subtree(TreeRoot, AllPaths) = {TreeRoot, TreeRoot \o <<"f">>}

\* C11 witness: the scenario has been run and both subdirectories counted.
C11_Witness ==
    LockedFileScenario /\ stats.DirsDeleted = 2 /\ stats.FilesDeleted = 2

\* The scenario with the two subdirectory increments colliding.
C11_WitnessCollision ==
    LockedFileScenario /\ stats.DirsDeleted = 1

\* C12: Stats are per invocation.  Two finished calls with the same mode
\* that met the same tree under /tmp/t return the same counts and the same
\* number of errors, whatever calls were made before them.
C12_StatsPerInvocation ==
    \A i, j \in 1..Len(log) :
        ( /\ log[i].err = "nil" /\ log[j].err = "nil"
          /\ log[i].dry = log[j].dry
          /\ log[i].input = log[j].input
          /\ log[i].tree = log[j].tree /\ TreeRoot \in log[i].tree )
        => ( /\ log[i].files = log[j].files
             /\ log[i].dirs = log[j].dirs
             /\ log[i].errors = log[j].errors )

\* The entry a goroutine's loop is at, and whether the goroutine takes the
\* step (only its own steps change its stack).
EntryOf(g) == Join(Top(g).path, Head(Top(g).entries))
Steps(g) == g \notin DOMAIN gs' \/ gs'[g] /= gs[g]
PcAfter(g) == Head(gs'[g].stack).pc

\* In a non-dry run a frame is at the FilesDeleted increment only for a
\* file that is gone and has no error entry, and at the DirsDeleted
\* increment only for a directory that is gone and has no removal error.
C13_CountedIsRemoved ==
    ~cfg.DryRun =>
        \A fr \in Frames :
            LET f == FrameOf(fr) IN
            /\ f.pc \in {"FilesLoad", "FilesStore"} =>
                  /\ Join(f.path, Head(f.entries)) \notin present
                  /\ \A i \in 1..Len(stats.Errors) :
                        stats.Errors[i].path /= Join(f.path, Head(f.entries))
            /\ f.pc \in {"DirsLoad", "DirsStore"} =>
                  /\ f.path \notin present
                  /\ \A i \in 1..Len(stats.Errors) :
                        stats.Errors[i] /= Err("remove", f.path)

\* The steps of a non-dry run that decide a count: the permission step and
\* the removal of a file, the removal of a directory, and the increments.
C13_CountStep ==
    \A g \in DOMAIN gs :
        (~cfg.DryRun /\ Running(g) /\ Steps(g)) =>
            /\ (Top(g).pc = "Loop" /\ Top(g).entries /= <<>>
                /\ ~IsDir(EntryOf(g)) /\ ~skipsEntry(Kind(EntryOf(g)), cfg.SkipSymlinks)) =>
                  IF ChmodOk(EntryOf(g))
                  THEN PcAfter(g) = "FileRemove" /\ stats' = stats
                  ELSE /\ PcAfter(g) = "Update"
                       /\ stats' = AddError(stats, Err("chmod", EntryOf(g)))
                       /\ present' = present
            /\ Top(g).pc = "FileRemove" =>
                  IF EntryOf(g) \notin present'
                  THEN PcAfter(g) = "FilesLoad" /\ stats' = stats
                  ELSE /\ PcAfter(g) = "Update"
                       /\ stats' = AddError(stats, Err("remove", EntryOf(g)))
            /\ Top(g).pc = "FilesLoad" => PcAfter(g) = "FilesStore" /\ stats' = stats
            /\ Top(g).pc = "FilesStore" =>
                  /\ PcAfter(g) = "Update"
                  /\ stats' = [stats EXCEPT !.FilesDeleted = Top(g).tmp + 1]
            /\ Top(g).pc = "RemoveDir" =>
                  IF Top(g).path \notin present'
                  THEN PcAfter(g) = "DirsLoad" /\ stats' = stats
                  ELSE PcAfter(g) = "RemoveDirError" /\ stats' = stats
            /\ Top(g).pc = "RemoveDirError" =>
                  /\ PcAfter(g) = "Done"
                  /\ stats' = AddError(stats, Err("remove", Top(g).path))
                  /\ present' = present
            /\ Top(g).pc = "DirsLoad" => PcAfter(g) = "DirsStore" /\ stats' = stats
            /\ Top(g).pc = "DirsStore" =>
                  /\ PcAfter(g) = "Done"
                  /\ stats' = [stats EXCEPT !.DirsDeleted = Top(g).tmp + 1]

\* C13: count iff success.  In a non-dry run the FilesDeleted (DirsDeleted)
\* increment is the step that follows the successful removal of the file
\* (directory) and is taken for no other entry; a failing permission or
\* removal step appends an error and leads past the increment.
C13_CountIffSuccess == [] C13_CountedIsRemoved /\ [][C13_CountStep]_vars

\* C13 witness: a non-dry call has returned with a file counted, a file
\* whose removal failed not counted, and that failure in the error list.
C13_Witness ==
    /\ Returned /\ ~cfg.DryRun /\ Quiescent
    /\ world.fault = [op |-> "remove", node |-> TreeRoot \o <<"f">>]
    /\ TreeRoot \o <<"f">> \in present
    /\ TreeRoot \o <<"g">> \in world.present \ present
    /\ stats.FilesDeleted = 2
    /\ \E i \in 1..Len(stats.Errors) : stats.Errors[i] = Err("remove", TreeRoot \o <<"f">>)


\* C14: soft permission failure.  When the chmod of a directory at the start
\* of its subtree procedure fails, the error is recorded and the procedure
\* goes on to list the directory (and from there on to its entries and to
\* its own removal).
C14_SoftPermissionFailure ==
    [][ \A g \in DOMAIN gs :
          ( /\ Running(g) /\ Steps(g)
            /\ Top(g).pc = "makeDeletable"
            /\ makeDeletableChmods(cfg.DryRun)
            /\ ~ChmodOk(Top(g).path) )
          => /\ stats' = AddError(stats, Err("chmod", Top(g).path))
             /\ Len(gs'[g].stack) = Len(gs[g].stack)
             /\ PcAfter(g) = "ReadDir" ]_vars


\* The branch of ReadDir a goroutine is about to take fails.
ListingFails(g) == Running(g) /\ Top(g).pc = "ReadDir" /\ ~ReadDirOk(Top(g).path)

\* The failing listing step: one error for the directory, nothing else
\* changes, the frame goes to its deferred wg.Done with no entry read.
C15_ListStep ==
    \A g \in DOMAIN gs :
        (ListingFails(g) /\ Steps(g)) =>
            /\ stats' = AddError(stats, Err("open", Top(g).path))
            /\ Len(gs'[g].stack) = Len(gs[g].stack)
            /\ PcAfter(g) = "Done"
            /\ Head(gs'[g].stack).entries = <<>>
            /\ UNCHANGED <<present, mode, progress, wgc, sem>>

\* The step after it: the frame's Done, which decrements the barrier the
\* frame was handed and pops the frame.
C15_DoneStep ==
    \A g \in DOMAIN gs :
        (Running(g) /\ Top(g).pc = "Done" /\ Steps(g)) =>
            /\ wgc'[Top(g).wg] = wgc[Top(g).wg] - 1
            /\ UNCHANGED <<present, stats>>
            /\ \/ g \notin DOMAIN gs'
               \/ Len(gs'[g].stack) = Len(gs[g].stack) - 1

\* A directory whose listing failed: it has exactly one error, it is still
\* there with everything below it, and no frame works on it or below it
\* except its own frame on the way to Done.
C15_SubtreeUntouched ==
    \A d \in AllPaths :
        (\E i \in 1..Len(stats.Errors) : stats.Errors[i] = Err("open", d)) =>
            /\ Cardinality({i \in 1..Len(stats.Errors) : stats.Errors[i].path = d}) = 1
            /\ Subtree(d, world.present) \subseteq present
            /\ \A fr \in Frames :
                  /\ FrameOf(fr).path = d => FrameOf(fr).pc = "Done"
                  /\ ~(IsPrefix(d, FrameOf(fr).path) /\ FrameOf(fr).path /= d)

\* C15: a listing failure is subtree-local.  A failed os.ReadDir appends
\* exactly one error for the directory, none of its entries is processed or
\* descended into, the directory's removal is not attempted, and the frame
\* still calls wg.Done on the barrier it was given.
C15_ListingFailureLocal ==
    [] C15_SubtreeUntouched /\ [][C15_ListStep /\ C15_DoneStep]_vars

\* C15 witness: the call has returned, the listing of /tmp/t/a failed and is
\* recorded, and the sibling file was removed.
C15_Witness ==
    /\ Returned /\ Quiescent /\ ~cfg.DryRun
    /\ \E i \in 1..Len(stats.Errors) : stats.Errors[i] = Err("open", TreeRoot \o <<"a">>)
    /\ TreeRoot \o <<"a", "x">> \in present
    /\ TreeRoot \o <<"f">> \in world.present \ present


\* The remove errors recorded for path p, and whether the loop dealt with
\* entry q: it is gone, or it has an error of its own, or it is a symlink
\* that the run skips.
RemoveErrors(p) == { i \in 1..Len(stats.Errors) : stats.Errors[i] = Err("remove", p) }
Processed(q) ==
    \/ q \notin present
    \/ \E i \in 1..Len(stats.Errors) : stats.Errors[i].path = q
    \/ skipsEntry(Kind(q), cfg.SkipSymlinks)

\* The call is over: Delete has returned and every goroutine has finished,
\* or the process has exited on a panic.
CallOver == (Returned /\ Quiescent) \/ proc = "exited"

\* C16: failure isolation.  When a non-dry call is over, for every path
\* whose removal failed: the failure is recorded once (no retry), every
\* sibling entry has been processed, and every ancestor directory up to the
\* root is either removed or has exactly one removal error of its own.
C16_FailureIsolation ==
    (CallOver /\ ~cfg.DryRun) =>
        \A p \in Subtree(RootOf(input), world.present) :
            RemoveErrors(p) /= {} =>
                /\ Cardinality(RemoveErrors(p)) = 1
                /\ \A q \in Children(Parent(p), world.present) :
                      p /= RootOf(input) => Processed(q)
                /\ \A d \in Subtree(RootOf(input), world.present) :
                      (IsPrefix(d, p) /\ d /= p) =>
                          \/ d \notin present
                          \/ Cardinality(RemoveErrors(d)) = 1


\* The spawned goroutines of call c that have not yet given their permit
\* back.
Holders(c) == { g \in DOMAIN gs : g.call = c /\ gs[g].spawned }

\* The permits held are those of the live spawned goroutines, one each, and
\* never more than MaxThreads.
C17_Held ==
    \A c \in DOMAIN sem :
        /\ sem[c] = Cardinality(Holders(c))
        /\ sem[c] >= 0 /\ sem[c] <= cfg.MaxThreads

\* A step that changes the permits of a running call is either an acquire
\* that found a free permit and starts exactly one new goroutine, or the
\* release by a spawned goroutine whose deleteRecursive (and with it its
\* wg.Done) is over, which then ends.
C17_PermitStep ==
    \A c \in DOMAIN sem :
        (c \in DOMAIN sem' /\ sem'[c] /= sem[c]) =>
            \/ /\ sem[c] < cfg.MaxThreads
               /\ sem'[c] = sem[c] + 1
               /\ \E g \in DOMAIN gs' \ DOMAIN gs :
                     /\ DOMAIN gs' = DOMAIN gs \cup {g}
                     /\ g.call = c /\ gs'[g].spawned
                     /\ Len(gs'[g].stack) = 1
                     /\ Head(gs'[g].stack).pc = "makeDeletable"
            \/ /\ sem'[c] = sem[c] - 1
               /\ \E g \in DOMAIN gs \ DOMAIN gs' :
                     /\ DOMAIN gs' = DOMAIN gs \ {g}
                     /\ g.call = c /\ gs[g].spawned
                     /\ gs[g].stack = <<>>

\* C17 as stated, its last part: when Delete has returned, no permit of the
\* call is held.
C17_AllReleasedAtReturn == Returned => sem[calls] = 0

\* C17: permit accounting.  A permit is taken only by a successful
\* non-blocking acquire that spawns a goroutine, it is given back once, by
\* that goroutine after its deleteRecursive has returned, and the permits
\* held are at every moment those of the spawned goroutines that have not
\* yet released, never more than MaxThreads.  (The release is not ordered
\* before Delete's return.)
C17_PermitAccounting == [] C17_Held /\ [][C17_PermitStep]_vars

\* C17 witness: Delete has returned while the goroutine spawned for /tmp/t/a
\* still holds its permit; with MaxThreads = 2 and one subdirectory no
\* directory was processed inline in this run.
C17_Witness ==
    /\ Returned /\ cfg.MaxThreads = 2
    /\ world.present = BasePaths \cup Under({<<>>, <<"a">>, <<"a", "x">>, <<"f">>})
    /\ sem[calls] = 1
    /\ Holders(calls) = { Key(calls, TreeRoot \o <<"a">>) }
    /\ gs[Key(calls, TreeRoot \o <<"a">>)].stack = <<>>


\* C18: barrier balance.  On every WaitGroup (the one of Delete and each
\* directory's subWg) the counter is the number of live deleteRecursive
\* calls that were handed it, spawned or inline: each was registered once
\* before it started and signals once when it ends, so the counter is never
\* negative and is not zero while such a call is still running.
C18_BarrierBalance ==
    \A k \in DOMAIN wgc :
        /\ wgc[k] >= 0
        /\ wgc[k] = Cardinality({ fr \in Frames : FrameOf(fr).wg = k })


\* The directories of the call's tree that were listed when the call is
\* over: the directory and its ancestors in the tree have no chmod or open
\* error.  ListedEntries is the sum of their entry counts (every node but
\* the root is an entry of exactly one directory).
Listed(root) ==
    { d \in Subtree(root, world.present) :
        /\ IsDir(d)
        /\ \A e \in Subtree(root, world.present) :
              IsPrefix(e, d) =>
                  \A i \in 1..Len(stats.Errors) :
                      ~(stats.Errors[i].path = e /\ stats.Errors[i].op \in {"chmod", "open"}) }
ListedEntries(root) ==
    Cardinality({ q \in Subtree(root, world.present) \ {root} : Parent(q) \in Listed(root) })

\* C19: progress consistency.  Processed never exceeds Total, and when
\* Delete has returned (and every task has finished) Total is the sum of the
\* entry counts of the directories that were listed: no addition to Total
\* is lost.
C19_ProgressConsistency ==
    /\ \A c \in DOMAIN progress : progress[c].Processed <= progress[c].Total
    /\ (Returned /\ Quiescent /\ ~panicked) =>
          progress[calls].Total = ListedEntries(RootOf(input))


\* C20: no division by zero in progress reporting.  What Update shows as
\* rate and ETA is either unavailable or a number: the rate a positive
\* finite number, the ETA a finite number; a zero elapsed time or a zero
\* rate never reaches a division.
C20_NoDivisionByZero ==
    \A c \in DOMAIN progress :
        /\ progress[c].rate.cls \in {"none", "finite"}
        /\ progress[c].rate.cls = "finite" => progress[c].rate.num > 0
        /\ progress[c].eta.cls \in {"none", "finite"}
        /\ progress[c].rate.cls = "none" => progress[c].eta.cls = "none"


\* C21: the stand-alone asyncRmRF terminates.  Once called, asyncRmRF
\* waits for all deletion tasks and returns, whatever the tree and the
\* semaphore capacity (>= 1), trees nested deeper than the capacity
\* included.
C21_AsyncRmRFReturns == (callerPc = "waiting") ~> (callerPc = "returned")

====
